---- MODULE Spec2Model ----
(***************************************************************************)
(* weather-check tray widget (src/tray/weather_tray.py).                   *)
(*                                                                         *)
(* The GTK main loop runs one callback at a time (timer, idle sources,     *)
(* menu items, buttons); every refresh starts a worker thread that fetches *)
(* and parses the forecast and posts one idle callback back to the loop.   *)
(* Python values: a str is a tuple of one-character strings, a dict is a   *)
(* function on its keys, None is PyNone.                                   *)
(***************************************************************************)
EXTENDS Integers, Sequences, FiniteSets, TLC

VARIABLES
    now,            \* wall clock, whole seconds since start-up (datetime.now())
    nticks,         \* number of clock steps taken (bounds the exploration)
    _last_update,   \* WeatherTray._last_update
    _last_data,     \* WeatherTray._last_data
    ind_icon,       \* the indicator's icon (ind.set_icon_full)
    ind_label,      \* the indicator's label (ind.set_label)
    item_title,     \* label of the first menu item
    idle_startup,   \* the idle source of GLib.idle_add(self.refresh_async) is attached
    timer_armed,    \* the source of GLib.timeout_add_seconds is attached
    timer_due,      \* the time from which the timer source is ready
    workers,        \* worker threads that have not yet posted their callback
    nextId,         \* number of the next refresh (start order)
    idleq,          \* one-shot idle callbacks (_apply/_err) waiting in the loop
    wins,           \* details windows created so far: whether each is on screen
    details_buf,    \* text in the buffer of the text view _details_text refers to
    _details_win,   \* WeatherTray._details_win (index into wins)
    _details_text,  \* WeatherTray._details_text (text view of that window)
    idle_runs,      \* history: how often the start-up idle source has run
    posted,         \* history: callbacks each refresh has posted
    last_ran,       \* history: the refresh whose callback last_ran, last_ok last (0: none)
    last_ok,        \* history: the refresh whose _apply last_ran, last_ok last (0: none)
    fn_in,          \* argument of the symbol functions (function-level runs)
    fn_out          \* their results

vars == <<now, nticks, _last_update, _last_data, ind_icon, ind_label, item_title,
          idle_startup, timer_armed, timer_due, workers, nextId, idleq,
          wins, details_buf, _details_win, _details_text,
          idle_runs, posted, last_ran, last_ok, fn_in, fn_out>>

-----------------------------------------------------------------------------
(* Bounds of the exploration *)

MaxRefreshes == 2
MaxTicks == 2
MaxWindows == 2
MaxWords == 2

(* Program constants *)

REFRESH_SECONDS == 600
SecondsPerDay == 86400

\* Python values that may be None are tagged: None, a str (tuple of characters),
\* a number (temperatures in tenths of a degree, times in seconds); a dict is
\* the function on its keys.
PyNone == [none |-> TRUE]
Str(s) == [str |-> s]
Num(n) == [num |-> n]
EmptyDict == <<>>

DEFAULT_ICON == "weather-severe-alert-symbolic"

k_thunder == <<"t","h","u","n","d","e","r">>
k_thunderstorm == <<"t","h","u","n","d","e","r","s","t","o","r","m">>
k_heavysnow == <<"h","e","a","v","y","s","n","o","w">>
k_snow == <<"s","n","o","w">>
k_lightsnow == <<"l","i","g","h","t","s","n","o","w">>
k_heavyrain == <<"h","e","a","v","y","r","a","i","n">>
k_lightrain == <<"l","i","g","h","t","r","a","i","n">>
k_rain == <<"r","a","i","n">>
k_showers == <<"s","h","o","w","e","r","s">>
k_partlycloudy == <<"p","a","r","t","l","y","c","l","o","u","d","y">>
k_fair == <<"f","a","i","r">>
k_cloudy == <<"c","l","o","u","d","y">>
k_clearsky == <<"c","l","e","a","r","s","k","y">>

SYMBOL_ICON_MAP ==
    << [keys |-> <<k_thunder, k_thunderstorm>>, icon |-> "weather-storm-symbolic"],
       [keys |-> <<k_heavysnow, k_snow, k_lightsnow>>, icon |-> "weather-snow-symbolic"],
       [keys |-> <<k_heavyrain, k_lightrain, k_rain, k_showers>>,
        icon |-> "weather-showers-symbolic"],
       [keys |-> <<k_partlycloudy, k_fair>>, icon |-> "weather-few-clouds-symbolic"],
       [keys |-> <<k_cloudy>>, icon |-> "weather-overcast-symbolic"],
       [keys |-> <<k_clearsky>>, icon |-> "weather-clear-symbolic"] >>

-----------------------------------------------------------------------------
(* Python primitives *)

\* bool(v) of None, a str or a dict
Truthy(v) ==
    IF v = PyNone THEN FALSE
    ELSE IF DOMAIN v = {"str"} THEN v.str # <<>>
    ELSE DOMAIN v # {}

\* a or b
PyOr(a, b) == IF Truthy(a) THEN a ELSE b

\* d.get(k, default)
Get(d, k, default) == IF k \in DOMAIN d THEN d[k] ELSE default

\* str.lower() on the ASCII letters
LowerOf ==
    ("A" :> "a") @@ ("B" :> "b") @@ ("C" :> "c") @@ ("D" :> "d") @@ ("E" :> "e") @@ ("F" :> "f") @@
    ("G" :> "g") @@ ("H" :> "h") @@ ("I" :> "i") @@ ("J" :> "j") @@ ("K" :> "k") @@ ("L" :> "l") @@
    ("M" :> "m") @@ ("N" :> "n") @@ ("O" :> "o") @@ ("P" :> "p") @@ ("Q" :> "q") @@ ("R" :> "r") @@
    ("S" :> "s") @@ ("T" :> "t") @@ ("U" :> "u") @@ ("V" :> "v") @@ ("W" :> "w") @@ ("X" :> "x") @@
    ("Y" :> "y") @@ ("Z" :> "z")

LowerChar(c) == IF c \in DOMAIN LowerOf THEN LowerOf[c] ELSE c

Lower(s) == [i \in 1..Len(s) |-> LowerChar(s[i])]

\* k in s, for strings
Contains(k, s) ==
    \E i \in 0..(Len(s) - Len(k)) : SubSeq(s, i + 1, i + Len(k)) = k

-----------------------------------------------------------------------------
(* icon_name_from_symbol *)

AnyKeyIn(keys, s) == \E j \in 1..Len(keys) : Contains(keys[j], s)

RECURSIVE ScanIconMap(_, _)
ScanIconMap(s, i) ==
    IF i > Len(SYMBOL_ICON_MAP) THEN DEFAULT_ICON
    ELSE IF AnyKeyIn(SYMBOL_ICON_MAP[i].keys, s) THEN SYMBOL_ICON_MAP[i].icon
    ELSE ScanIconMap(s, i + 1)

\* variant: the code is matched as given, not lower-cased
icon_name_as_given(symbol_code) ==
    IF ~Truthy(symbol_code) THEN DEFAULT_ICON
    ELSE ScanIconMap(symbol_code.str, 1)

icon_name_from_symbol(symbol_code) ==
    IF ~Truthy(symbol_code) THEN DEFAULT_ICON
    ELSE ScanIconMap(Lower(symbol_code.str), 1)

-----------------------------------------------------------------------------
(* The symbol-code fallback chains *)

\* d.get(period, {}).get('summary', {}).get('symbol_code')
PeriodSymbol(d, period) ==
    Get(Get(Get(d, period, EmptyDict), "summary", EmptyDict), "symbol_code", PyNone)

\* refresh_async._worker: sym = (... or ... or ... or '') over ts0['data']
WorkerSymbol(d) ==
    PyOr(PyOr(PyOr(PeriodSymbol(d, "next_1_hours"),
                   PeriodSymbol(d, "next_6_hours")),
              PeriodSymbol(d, "next_12_hours")),
         Str(<<>>))

\* variant: the details view looks at next_6_hours before next_1_hours
DetailsSymbolSixFirst(d) ==
    PyOr(PyOr(PyOr(PeriodSymbol(d, "next_6_hours"),
                   PeriodSymbol(d, "next_1_hours")),
              PeriodSymbol(d, "next_12_hours")),
         Str(<<>>))

\* update_details_view: sym = (... or ... or ... or '') over now['data']
DetailsSymbol(d) ==
    LET s1 == PeriodSymbol(d, "next_1_hours")
        s6 == PeriodSymbol(d, "next_6_hours")
        s12 == PeriodSymbol(d, "next_12_hours")
    IN  IF Truthy(s1) THEN s1
        ELSE IF Truthy(s6) THEN s6
        ELSE IF Truthy(s12) THEN s12
        ELSE Str(<<>>)

-----------------------------------------------------------------------------
(* The worker's parse of a forecast document *)

\* float(v) or None
safe_temp(v) == IF v = PyNone THEN PyNone ELSE v

\* f"{temp:.1f}" of a temperature given in tenths
FormatTenths(t) ==
    IF t < 0 THEN <<"-", (0 - t) \div 10, ".", (0 - t) % 10>>
    ELSE <<t \div 10, ".", t % 10>>

\* label = f"{temp:.1f}degC" if temp is not None else 'N/A'
LabelOf(temp) ==
    IF temp # PyNone THEN FormatTenths(temp.num) \o <<"degC">> ELSE <<"N/A">>

\* data['properties']['timeseries'][0]['data']['instant']['details'] exists
HasDetails(data) ==
    /\ "properties" \in DOMAIN data
    /\ "timeseries" \in DOMAIN data.properties
    /\ Len(data.properties.timeseries) >= 1
    /\ "data" \in DOMAIN data.properties.timeseries[1]
    /\ "instant" \in DOMAIN data.properties.timeseries[1].data
    /\ "details" \in DOMAIN data.properties.timeseries[1].data.instant

\* the body of _worker's try block: the callback it builds
\* resp: [raised |-> TRUE] when fetch_weather raises, else [raised |-> FALSE, data |-> doc]
WorkerCallback(id, resp) ==
    IF resp.raised \/ ~HasDetails(resp.data)
    THEN [kind |-> "err", id |-> id]
    ELSE LET ts0 == resp.data.properties.timeseries[1]
             details == ts0.data.instant.details
             temp == safe_temp(Get(details, "air_temperature", PyNone))
             sym == WorkerSymbol(ts0.data)
         IN  [kind |-> "apply", id |-> id,
              icon_name |-> icon_name_from_symbol(sym),
              label |-> LabelOf(temp), temp |-> temp, data |-> resp.data]

\* variant: the error callback is posted from a finally block, after every fetch
WorkerPostsErrToo(id, resp) ==
    IF WorkerCallback(id, resp).kind = "err" THEN << WorkerCallback(id, resp) >>
    ELSE << WorkerCallback(id, resp), [kind |-> "err", id |-> id] >>

\* the callbacks one worker hands to GLib.idle_add
WorkerPosts(id, resp) == << WorkerCallback(id, resp) >>

-----------------------------------------------------------------------------
(* Forecast documents the server may answer with *)

CITY == "Sofia"

Row(d) == [time |-> "2026-01-01T12:00:00Z", data |-> d]

Forecast(rows) == [properties |-> [timeseries |-> rows]]

\* 12.5 degrees, rain in the next hour
DocRain ==
    Forecast(<< Row([instant |-> [details |-> [air_temperature |-> Num(125)]],
                     next_1_hours |-> [summary |-> [symbol_code |-> Str(k_rain)]]]) >>)

\* no temperature, no period summaries, and a second row without 'time': the
\* worker accepts it, the details view cannot render it
DocSparse ==
    Forecast(<< Row([instant |-> [details |-> EmptyDict]]),
                [data |-> [instant |-> [details |-> EmptyDict]]] >>)

\* properties.timeseries[0].data.instant has no 'details'
DocNoDetails == Forecast(<< Row([instant |-> EmptyDict]) >>)

\* an empty time series
DocEmpty == Forecast(<< >>)

Documents == {DocRain, DocSparse, DocNoDetails, DocEmpty}

Responses == {[raised |-> TRUE]} \cup {[raised |-> FALSE, data |-> d] : d \in Documents}

-----------------------------------------------------------------------------
(* Indicator and menu *)

\* int(round(float(temp))) of a temperature in tenths (round half to even)
RoundTenths(t) ==
    LET q == t \div 10
        r == t % 10
    IN  IF r < 5 THEN q
        ELSE IF r > 5 THEN q + 1
        ELSE IF q % 2 = 0 THEN q ELSE q + 1

\* variant: the icon is rendered from the default icon, whatever the symbol
IconOfDefault(base_icon_name, label, temp) ==
    [base |-> DEFAULT_ICON,
     overlay |-> IF temp # PyNone THEN <<RoundTenths(temp.num), "deg">> ELSE label]

\* _set_icon_and_label: the overlay text, then the icon rendered from base and text.
\* A label with no degree sign ('N/A') is used as the overlay itself.
IconOf(base_icon_name, label, temp) ==
    [base |-> base_icon_name,
     overlay |-> IF temp # PyNone THEN <<RoundTenths(temp.num), "deg">> ELSE label]

TitlePlain == <<"Weather - ", CITY>>
TitleLabel(label) == <<"Weather - ", CITY, " . ", label>>
TitleError == <<"Weather - ", CITY, " . ", <<"error">>>>

-----------------------------------------------------------------------------
(* The details view *)

\* timedelta.seconds: the seconds field of the normalised difference, 0..86399
TimedeltaSeconds(d) == d % SecondsPerDay

\* the condition of update_details_view under which it calls refresh_async
NeedsRefresh(data, upd, t) ==
    \/ ~Truthy(data)
    \/ (upd # PyNone /\ TimedeltaSeconds(t - upd.num) > REFRESH_SECONDS)

\* every row of ts[:8] has 'time' and data.instant.details
RowsRender(ts) ==
    \A i \in 1..Len(ts) :
        i <= 8 =>
            /\ "time" \in DOMAIN ts[i]
            /\ "data" \in DOMAIN ts[i]
            /\ "instant" \in DOMAIN ts[i].data
            /\ "details" \in DOMAIN ts[i].data.instant

\* the text update_details_view puts into the buffer
DetailsText(data, upd) ==
    IF ~Truthy(data) THEN [kind |-> "unavailable"]
    ELSE LET ts == data.properties.timeseries
             det == ts[1].data.instant.details
         IN  IF ~RowsRender(ts) THEN [kind |-> "error"]
             ELSE [kind |-> "summary",
                   updated |-> IF upd # PyNone THEN Num(upd.num \div 60) ELSE PyNone,
                   temp |-> Get(det, "air_temperature", PyNone),
                   sym |-> DetailsSymbol(ts[1].data),
                   rows |-> IF Len(ts) < 8 THEN Len(ts) ELSE 8]

\* update_details_view's write to the buffer (holding buf) of the text view tv
UpdateDetailsView(buf, tv, data, upd) ==
    IF tv = PyNone THEN buf ELSE DetailsText(data, upd)

\* update_details_view reaches its call of refresh_async
DetailsKick(tv, data, upd, t) == tv # PyNone /\ NeedsRefresh(data, upd, t)

\* variant: the window's visibility is not consulted, only its existence is required
\* to be absent
DetailsNeverVisible(ws, w) == FALSE

\* getattr(self, '_details_win', None) and self._details_win.get_visible()
DetailsVisible(ws, w) == w # PyNone /\ ws[w.num]

-----------------------------------------------------------------------------
(* State after WeatherTray.__init__ *)

NoCall == [called |-> FALSE]

InitTray ==
    /\ now = 0
    /\ nticks = 0
    /\ _last_update = PyNone
    /\ _last_data = PyNone
    /\ ind_icon = [base |-> DEFAULT_ICON, overlay |-> <<>>]
    /\ ind_label = <<"...">>
    /\ item_title = TitlePlain
    /\ idle_startup = TRUE
    /\ timer_armed = TRUE
    /\ timer_due = REFRESH_SECONDS
    /\ workers = {}
    /\ nextId = 1
    /\ idleq = <<>>
    /\ wins = <<>>
    /\ details_buf = [kind |-> "empty"]
    /\ _details_win = PyNone
    /\ _details_text = PyNone
    /\ idle_runs = 0
    /\ posted = <<>>
    /\ last_ran = 0
    /\ last_ok = 0

Init == InitTray /\ fn_in = NoCall /\ fn_out = NoCall

trayVars == <<_last_update, _last_data, ind_icon, ind_label, item_title>>
clockVars == <<now, nticks>>
winVars == <<wins, details_buf, _details_win, _details_text>>
fnVars == <<fn_in, fn_out>>

-----------------------------------------------------------------------------
(* refresh_async *)

\* threading.Thread(target=_worker, daemon=True).start()
StartWorker(ws, id) == ws \cup {id}

\* variant: the callback returns False, which detaches its source
RefreshAsyncReturnsFalse == FALSE

\* return True  # keep timer
RefreshAsyncReturn == TRUE

\* one call of refresh_async
RefreshAsync ==
    /\ nextId <= MaxRefreshes
    /\ workers' = StartWorker(workers, nextId)
    /\ nextId' = nextId + 1
    /\ posted' = Append(posted, <<>>)

NoRefresh == UNCHANGED <<workers, nextId, posted>>

-----------------------------------------------------------------------------
(* Events of the main loop *)

TickSteps == {REFRESH_SECONDS, SecondsPerDay}

\* time passes
Tick ==
    /\ nticks < MaxTicks
    /\ \E d \in TickSteps : now' = now + d
    /\ nticks' = nticks + 1
    /\ UNCHANGED <<trayVars, idle_startup, timer_armed, timer_due, workers, nextId,
                   idleq, winVars, idle_runs, posted, last_ran, last_ok, fnVars>>

\* the source of GLib.idle_add(self.refresh_async) is dispatched
StartupIdle ==
    /\ idle_startup
    /\ RefreshAsync
    /\ idle_startup' = RefreshAsyncReturn
    /\ idle_runs' = idle_runs + 1
    /\ UNCHANGED <<clockVars, trayVars, timer_armed, timer_due, idleq, winVars, last_ran, last_ok,
                   fnVars>>

\* the source of GLib.timeout_add_seconds(REFRESH_SECONDS, self.refresh_async) fires
TimerFire ==
    /\ timer_armed
    /\ now >= timer_due
    /\ RefreshAsync
    /\ timer_armed' = RefreshAsyncReturn
    /\ timer_due' = now + REFRESH_SECONDS
    /\ UNCHANGED <<clockVars, trayVars, idle_startup, idleq, winVars, idle_runs, last_ran, last_ok,
                   fnVars>>

\* "Refresh now"
on_refresh ==
    /\ RefreshAsync
    /\ UNCHANGED <<clockVars, trayVars, idle_startup, timer_armed, timer_due, idleq,
                   winVars, idle_runs, last_ran, last_ok, fnVars>>

\* update_details_view as called from a handler that leaves the tray data alone
update_details_view ==
    /\ details_buf' = UpdateDetailsView(details_buf, _details_text, _last_data,
                                         _last_update)
    /\ IF DetailsKick(_details_text, _last_data, _last_update, now)
       THEN RefreshAsync
       ELSE NoRefresh

\* "Show weather details", a visible window exists: present it and re-render
OpenDetailsPresent ==
    /\ DetailsVisible(wins, _details_win)
    /\ update_details_view
    /\ UNCHANGED <<wins, _details_win, _details_text>>

\* "Show weather details", otherwise: build a window, render, show it
OpenDetailsNew ==
    /\ ~DetailsVisible(wins, _details_win)
    /\ Len(wins) < MaxWindows
    /\ LET i == Len(wins) + 1
           built == Append(wins, FALSE)
       IN  /\ _details_win' = Num(i)
           /\ _details_text' = Num(i)
           /\ details_buf' = UpdateDetailsView([kind |-> "empty"], Num(i), _last_data,
                                                _last_update)
           /\ wins' = [built EXCEPT ![i] = TRUE]
           /\ IF DetailsKick(Num(i), _last_data, _last_update, now)
              THEN RefreshAsync
              ELSE NoRefresh

on_open_details ==
    /\ OpenDetailsPresent \/ OpenDetailsNew
    /\ UNCHANGED <<clockVars, trayVars, idle_startup, timer_armed, timer_due, idleq,
                   idle_runs, last_ran, last_ok, fnVars>>

\* the "Refresh" button of a window on screen
DetailsRefreshClicked ==
    /\ \E i \in 1..Len(wins) : wins[i]
    /\ update_details_view
    /\ UNCHANGED <<clockVars, trayVars, idle_startup, timer_armed, timer_due, idleq,
                   wins, _details_win, _details_text, idle_runs, last_ran, last_ok, fnVars>>

\* the "Close" button of a window on screen: win.hide()
DetailsCloseClicked ==
    /\ \E i \in 1..Len(wins) :
          /\ wins[i]
          /\ wins' = [wins EXCEPT ![i] = FALSE]
    /\ UNCHANGED <<clockVars, trayVars, idle_startup, timer_armed, timer_due, workers,
                   nextId, idleq, details_buf, _details_win, _details_text, idle_runs, posted, last_ran, last_ok,
                   fnVars>>

-----------------------------------------------------------------------------
(* The worker thread and its callbacks *)

\* the claim-side reading of "fetch and parsing succeed"
ResponseComplete(resp) ==
    /\ ~resp.raised
    /\ resp.data.properties.timeseries # <<>>
    /\ "details" \in DOMAIN resp.data.properties.timeseries[1].data.instant

\* _worker runs to its GLib.idle_add; it touches no state of the object
WorkerFinish ==
    /\ \E w \in workers, resp \in Responses :
          LET cbs == WorkerPosts(w, resp)
          IN  /\ workers' = workers \ {w}
              /\ idleq' = idleq \o cbs
              /\ posted' = [posted EXCEPT ![w] =
                              @ \o [i \in 1..Len(cbs) |->
                                      [cb |-> cbs[i], complete |-> ResponseComplete(resp)]]]
    /\ UNCHANGED <<clockVars, trayVars, idle_startup, timer_armed, timer_due, nextId,
                   winVars, idle_runs, last_ran, last_ok, fnVars>>

\* variant: _apply stores the data and leaves the time unset
ApplyStoresDataOnly(cb, t) == [upd |-> PyNone, data |-> cb.data]

\* what _apply stores: self._last_update, self._last_data
ApplyStores(cb, t) == [upd |-> Num(t), data |-> cb.data]

\* _apply, dispatched from the idle queue
RunApply ==
    /\ idleq # <<>>
    /\ Head(idleq).kind = "apply"
    /\ LET cb == Head(idleq)
           st == ApplyStores(cb, now)
       IN  /\ ind_label' = cb.label
           /\ ind_icon' = IconOf(cb.icon_name, cb.label, cb.temp)
           /\ _last_update' = st.upd
           /\ _last_data' = st.data
           /\ item_title' = TitleLabel(cb.label)
           /\ details_buf' = IF DetailsVisible(wins, _details_win)
                             THEN UpdateDetailsView(details_buf, _details_text, st.data,
                                                    st.upd)
                             ELSE details_buf
           /\ IF /\ DetailsVisible(wins, _details_win)
                 /\ DetailsKick(_details_text, st.data, st.upd, now)
              THEN RefreshAsync
              ELSE NoRefresh
           /\ last_ran' = cb.id
           /\ last_ok' = cb.id
    /\ idleq' = Tail(idleq)
    /\ UNCHANGED <<clockVars, idle_startup, timer_armed, timer_due, wins, _details_win,
                   _details_text, idle_runs, fnVars>>

\* variant: _err leaves the menu title as it is
ErrKeepsTitle(title) == title

\* what _err changes: the menu title
ErrTitle(title) == TitleError

\* _err, dispatched from the idle queue
RunErr ==
    /\ idleq # <<>>
    /\ Head(idleq).kind = "err"
    /\ item_title' = ErrTitle(item_title)
    /\ last_ran' = Head(idleq).id
    /\ idleq' = Tail(idleq)
    /\ UNCHANGED <<clockVars, _last_update, _last_data, ind_icon, ind_label,
                   idle_startup, timer_armed, timer_due, workers, nextId, winVars,
                   idle_runs, posted, last_ok, fnVars>>

Next ==
    \/ Tick
    \/ StartupIdle
    \/ TimerFire
    \/ on_refresh
    \/ on_open_details
    \/ DetailsRefreshClicked
    \/ DetailsCloseClicked
    \/ WorkerFinish
    \/ RunApply
    \/ RunErr

Spec == Init /\ [][Next]_vars

-----------------------------------------------------------------------------
(* Function-level runs: the symbol functions applied to bounded inputs *)

w_fog == <<"f","o","g">>
w_and == <<"a","n","d">>
w_day == <<"_","d","a","y">>
w_Thunder == <<"T","h","u","n","d","e","r">>

\* parts of the symbol codes of the forecast API, and one capitalised
Vocabulary ==
    {k_thunder, k_snow, k_rain, k_showers, k_partlycloudy, k_cloudy, k_fair,
     k_clearsky, w_fog, w_and, w_day, w_Thunder}

RECURSIVE CodesOf(_)
CodesOf(n) ==
    IF n = 0 THEN {<<>>}
    ELSE LET shorter == CodesOf(n - 1)
         IN  shorter \cup {c \o w : c \in shorter, w \in Vocabulary}

SymbolCodes == CodesOf(MaxWords)

Periods == {"next_1_hours", "next_6_hours", "next_12_hours"}

\* what a period that is present may hold
PeriodShapes ==
    {EmptyDict, [summary |-> EmptyDict], [summary |-> [symbol_code |-> PyNone]]}
    \cup {[summary |-> [symbol_code |-> Str(c)]] : c \in {<<>>, k_rain, k_snow, k_clearsky}}

\* ts0['data'] with any of the periods absent
PeriodDicts == UNION {[S -> PeriodShapes] : S \in SUBSET Periods}

SymInputs ==
    {[op |-> "icon", code |-> PyNone]}
    \cup {[op |-> "icon", code |-> Str(c)] : c \in SymbolCodes}
    \cup {[op |-> "chain", data |-> d] : d \in PeriodDicts}

InitSym == InitTray /\ fn_in \in SymInputs /\ fn_out = NoCall

CallIconName ==
    /\ fn_in.op = "icon"
    /\ fn_out = NoCall
    /\ fn_out' = [called |-> TRUE, icon |-> icon_name_from_symbol(fn_in.code)]
    /\ UNCHANGED <<clockVars, trayVars, idle_startup, timer_armed, timer_due, workers,
                   nextId, idleq, winVars, idle_runs, posted, last_ran, last_ok, fn_in>>

CallSymbolChain ==
    /\ fn_in.op = "chain"
    /\ fn_out = NoCall
    /\ fn_out' = [called |-> TRUE,
                  tray_sym |-> WorkerSymbol(fn_in.data),
                  tray_icon |-> icon_name_from_symbol(WorkerSymbol(fn_in.data)),
                  details_sym |-> DetailsSymbol(fn_in.data)]
    /\ UNCHANGED <<clockVars, trayVars, idle_startup, timer_armed, timer_due, workers,
                   nextId, idleq, winVars, idle_runs, posted, last_ran, last_ok, fn_in>>

NextSym == CallIconName \/ CallSymbolChain

SpecSym == InitSym /\ [][NextSym]_vars

-----------------------------------------------------------------------------
(* C3: icon_name_from_symbol *)

IconOrder ==
    << "weather-storm-symbolic", "weather-snow-symbolic", "weather-showers-symbolic",
       "weather-few-clouds-symbolic", "weather-overcast-symbolic",
       "weather-clear-symbolic" >>

\* the entries of SYMBOL_ICON_MAP one of whose keys is a substring of the lower-cased code
MatchingEntries(c) ==
    {i \in 1..Len(SYMBOL_ICON_MAP) :
        \E j \in 1..Len(SYMBOL_ICON_MAP[i].keys) :
            Contains(SYMBOL_ICON_MAP[i].keys[j], Lower(c))}

FirstEntryIcon(c) ==
    IF MatchingEntries(c) = {} THEN DEFAULT_ICON
    ELSE LET first == CHOOSE i \in MatchingEntries(c) :
                          \A k \in MatchingEntries(c) : i <= k
         IN  IconOrder[first]

IconCalled == fn_in.op = "icon" /\ fn_out.called

\* the lookup proper: default for None and '', else the first matching entry in list
\* order; 'thunder' wins over everything; 'partlycloudy' is few-clouds; the result is
\* a mapped icon or the default
LookupIsFirstMatch ==
    /\ DEFAULT_ICON = "weather-severe-alert-symbolic"
    /\ fn_in.code = PyNone \/ fn_in.code = Str(<<>>) => fn_out.icon = DEFAULT_ICON
    /\ fn_in.code # PyNone /\ fn_in.code # Str(<<>>) =>
          /\ fn_out.icon = FirstEntryIcon(fn_in.code.str)
          /\ Contains(k_thunder, Lower(fn_in.code.str)) => fn_out.icon = IconOrder[1]
          /\ fn_in.code.str \in {k_partlycloudy, k_partlycloudy \o w_day} =>
                fn_out.icon = IconOrder[4]
    /\ fn_out.icon \in {IconOrder[i] : i \in 1..6} \cup {DEFAULT_ICON}

-----------------------------------------------------------------------------
(* C5: the fallback chain over the periods *)

\* the period's summary.symbol_code is present and non-empty
HasCode(d, p) ==
    /\ p \in DOMAIN d
    /\ "summary" \in DOMAIN d[p]
    /\ "symbol_code" \in DOMAIN d[p].summary
    /\ d[p].summary.symbol_code # PyNone
    /\ d[p].summary.symbol_code # Str(<<>>)

ChainCode(d) ==
    IF HasCode(d, "next_1_hours") THEN d["next_1_hours"].summary.symbol_code
    ELSE IF HasCode(d, "next_6_hours") THEN d["next_6_hours"].summary.symbol_code
    ELSE IF HasCode(d, "next_12_hours") THEN d["next_12_hours"].summary.symbol_code
    ELSE Str(<<>>)

\* C5: the tray (refresh_async) and the details view (update_details_view) pick the
\* symbol code by the same chain next_1_hours, next_6_hours, next_12_hours, '' over
\* present non-empty codes; with all three missing the tray icon is DEFAULT_ICON.
C5_SameFallbackChain ==
    fn_in.op = "chain" /\ fn_out.called =>
        /\ fn_out.tray_sym = ChainCode(fn_in.data)
        /\ fn_out.details_sym = ChainCode(fn_in.data)
        /\ (\A p \in Periods : ~HasCode(fn_in.data, p)) =>
              fn_out.tray_sym = Str(<<>>) /\ fn_out.tray_icon = DEFAULT_ICON

\* the chain fell through an empty next_1_hours code to next_6_hours
C5_Witness ==
    /\ fn_in.op = "chain"
    /\ fn_out.called
    /\ HasCode(fn_in.data, "next_6_hours")
    /\ HasCode(fn_in.data, "next_12_hours")
    /\ "next_1_hours" \in DOMAIN fn_in.data
    /\ ~HasCode(fn_in.data, "next_1_hours")
    /\ fn_out.tray_sym = fn_in.data["next_6_hours"].summary.symbol_code
    /\ fn_out.tray_sym # fn_in.data["next_12_hours"].summary.symbol_code

-----------------------------------------------------------------------------
(* Claims about the running tray *)

Started == 1..(nextId - 1)
Completed == {id \in Started : id \notin workers}
Quiescent == workers = {} /\ idleq = <<>>
WorkerStep == workers' # workers /\ workers' \subseteq workers
CallbackStep == idleq # <<>> /\ idleq' = Tail(idleq)
ErrStep == CallbackStep /\ Head(idleq).kind = "err"
ApplyStep == CallbackStep /\ Head(idleq).kind = "apply"
RefreshStarted == nextId' = nextId + 1
SomeVisible == \E i \in 1..Len(wins) : wins[i]

\* C1: every call of refresh_async starts exactly one worker, every worker posts
\* exactly one callback (_apply iff fetch and parse succeeded, else _err), and a
\* worker's step writes none of _last_data, _last_update, icon, label, title: those
\* change only in a callback dispatched by the loop.
C1_OneWorkerOneCallback ==
    /\ [](\A id \in Started :
            IF id \in workers THEN posted[id] = <<>>
            ELSE /\ Len(posted[id]) = 1
                 /\ posted[id][1].cb.kind \in {"apply", "err"}
                 /\ posted[id][1].cb.kind = "apply" <=> posted[id][1].complete)
    /\ [][nextId' # nextId => /\ RefreshStarted
                              /\ workers' = workers \cup {nextId}
                              /\ nextId \notin workers]_vars
    /\ [][WorkerStep => UNCHANGED trayVars]_vars
    /\ [][trayVars' # trayVars => CallbackStep]_vars

\* one refresh has succeeded and been applied, another has failed
C1_Witness ==
    /\ \E id \in Completed : posted[id][1].cb.kind = "apply"
    /\ \E id \in Completed : posted[id][1].cb.kind = "err"
    /\ _last_data # PyNone

\* C2: the timer source stays attached whatever happens (refresh_async returns True),
\* each firing starts a refresh and re-arms REFRESH_SECONDS later; "Refresh now"
\* starts a refresh at once, also with refreshes in flight, and leaves the timer alone.
C2_TimerStaysManualRefresh ==
    /\ []timer_armed
    /\ [](nextId <= MaxRefreshes => ENABLED on_refresh)
    /\ [](nextId <= MaxRefreshes /\ now >= timer_due => ENABLED TimerFire)
    /\ [][timer_due' # timer_due =>
            RefreshStarted /\ timer_due' = now + REFRESH_SECONDS]_vars
    /\ [][on_refresh => /\ workers' = workers \cup {nextId}
                        /\ UNCHANGED <<timer_armed, timer_due>>]_vars

\* the timer has fired, a refresh has failed since start-up, one is still in flight
C2_Witness ==
    /\ timer_armed
    /\ timer_due > REFRESH_SECONDS
    /\ item_title = TitleError
    /\ workers # {}

\* C4: a failed refresh (fetch raised, or no properties.timeseries[0].data.instant.details)
\* ends in _err, whose only effect is the title "... error": data, update time, icon,
\* label, details text and the timer stay as they are.
C4_FailureOnlySetsTitle ==
    /\ [](\A id \in Completed :
            ~posted[id][1].complete => posted[id] = <<[cb |-> [kind |-> "err", id |-> id],
                                                       complete |-> FALSE]>>)
    /\ [][ErrStep => /\ item_title' = TitleError
                     /\ UNCHANGED <<_last_data, _last_update, ind_icon, ind_label,
                                    details_buf, wins, timer_armed, timer_due,
                                    workers, nextId>>]_vars

\* a failure shown after an earlier success, whose data, icon and label remain
C4_Witness ==
    /\ item_title = TitleError
    /\ _last_data = DocRain
    /\ ind_icon.base = "weather-showers-symbolic"
    /\ ind_label = <<12, ".", 5, "degC">>
    /\ timer_armed

\* C6 as stated: update_details_view starts a refresh exactly when there is no data
\* or the last update is more than REFRESH_SECONDS old, whatever the age; the
\* re-render made by _apply starts none.
C6_AsStated ==
    /\ [][DetailsRefreshClicked \/ on_open_details =>
            (RefreshStarted <=>
               (_last_data = PyNone \/ now - _last_update.num > REFRESH_SECONDS))]_vars
    /\ [][ApplyStep => ~RefreshStarted]_vars

\* C7: a visible details window is presented and re-rendered, never duplicated; a
\* window is built only when none is visible; at most one window is visible and
\* _details_win/_details_text refer to it.
C7_OneDetailsWindow ==
    /\ [](\A i \in 1..Len(wins) :
            wins[i] => _details_win = Num(i) /\ _details_text = Num(i))
    /\ [](Cardinality({i \in 1..Len(wins) : wins[i]}) <= 1)
    /\ [][Len(wins') > Len(wins) => ~SomeVisible]_vars
    /\ [][on_open_details /\ SomeVisible =>
            /\ wins' = wins
            /\ UNCHANGED <<_details_win, _details_text>>
            /\ details_buf' = DetailsText(_last_data, _last_update)]_vars

\* a second window was built after the first was closed, and is the one referred to
C7_Witness ==
    /\ Len(wins) = 2
    /\ ~wins[1]
    /\ wins[2]
    /\ _details_win = Num(2)
    /\ details_buf.kind = "summary"

\* C8 as stated: the start-up idle source runs once
C8_AsStated == idle_runs <= 1

\* the latest-started refresh that has completed, and the latest-started success
NewestOf(S) == CHOOSE id \in S : \A other \in S : other <= id
Succeeded == {id \in Completed : posted[id][1].cb.kind = "apply"}

\* C9 as stated: with everything completed, the tray shows the most recently started
\* success, and its title too unless a refresh started after it has failed
\* (looked at in the runs where the start-up source ran at most once)
C9_AsStated ==
    Quiescent /\ Succeeded # {} /\ idle_runs <= 1 =>
        LET cb == posted[NewestOf(Succeeded)][1].cb
        IN  /\ ind_icon.base = cb.icon_name
            /\ ind_label = cb.label
            /\ _last_data = cb.data
            /\ NewestOf(Completed) \in Succeeded => item_title = TitleLabel(cb.label)

\* C9, amended: the tray shows the success whose _apply ran last, and the title that
\* of the callback that ran last, whichever refresh was started first.
C9_LastCompletedWins ==
    /\ last_ok = 0 =>
          /\ ind_icon.base = DEFAULT_ICON
          /\ ind_label = <<"...">>
          /\ _last_data = PyNone
    /\ last_ok # 0 =>
          LET cb == posted[last_ok][1].cb
          IN  /\ ind_icon.base = cb.icon_name
              /\ ind_label = cb.label
              /\ _last_data = cb.data
    /\ last_ran = 0 => item_title = TitlePlain
    /\ last_ran # 0 =>
          LET cb == posted[last_ran][1].cb
          IN  item_title = IF cb.kind = "apply" THEN TitleLabel(cb.label) ELSE TitleError

\* all done, and the earlier-started refresh 1 has overwritten the later-started 2
C9_Witness ==
    /\ Quiescent
    /\ Succeeded = {1, 2}
    /\ last_ok = 1
    /\ _last_data = posted[1][1].cb.data
    /\ _last_data # posted[2][1].cb.data

\* C10: _last_update is None iff _last_data is None iff no _apply has run; a window
\* on screen shows 'Weather data unavailable.' exactly then, and a summary always
\* carries its 'Updated:' line.
C10_DataAndTimeTogether ==
    /\ _last_update = PyNone <=> _last_data = PyNone
    /\ _last_data = PyNone <=> last_ok = 0
    /\ SomeVisible =>
          /\ details_buf.kind = "unavailable" <=> last_ok = 0
          /\ details_buf.kind = "summary" => details_buf.updated # PyNone

\* a summary on screen, a failed refresh after it
C10_Witness ==
    /\ SomeVisible
    /\ details_buf.kind = "summary"
    /\ details_buf.updated # PyNone
    /\ item_title = TitleError
    /\ _last_update # PyNone

====
